---- MODULE Spec2Model ----
(***************************************************************************)
(* State-machine model of src/src/main.cpp: context bootstrap, the two     *)
(* stage shader pipeline, the triangle upload and the render loop.         *)
(* main() is one straight-line function; each action below is one of its   *)
(* statements (or one check-and-report block), and pc is the position in   *)
(* main().  The OpenGL / GLFW objects the statements act on are modelled   *)
(* by what the calls do to them (bindings, object state, viewport).        *)
(***************************************************************************)
EXTENDS Integers, Sequences, FiniteSets, TLC

\* ---------------------------------------------------------------- bounds
\* Largest number of render-loop iterations explored.
MaxFrames == 3
\* Resize notifications carry widths and heights in 0..MaxDim.
MaxDim == 2

\* ------------------------------------------------------------- constants
InitWidth == 800
InitHeight == 600
\* glDrawArrays(GL_TRIANGLES, 0, 3)
DrawFirst == 0
DrawCount == 3
\* glVertexAttribPointer(0, 3, GL_FLOAT, GL_FALSE, 3 * sizeof(float), 0)
AttribSize == 3
AttribStride == 12
\* sizeof(vertices): 9 floats
VertexBytes == 36
\* object names handed out by the GL (shaders and programs share a namespace)
VertexShaderName == 1
FragmentShaderName == 2
ProgramName == 3
BufferName == 1
VertexArrayName == 1

ShaderNames == {VertexShaderName, FragmentShaderName}

\* Info logs the driver can produce.  A stage that failed to compile has a
\* non-empty log naming the stage; a stage that compiled has an empty log or
\* only a warning.
FailureLog(name) == IF name = VertexShaderName THEN "vertex: syntax error"
                                               ELSE "fragment: syntax error"
SuccessLogs == {"", "warning"}
LinkFailureLog == "link error"

\* Sizes a resize notification can carry.
Dims == 0..MaxDim

VARIABLES
    pc,                 \* position in main()
    exitCode,           \* value returned by main(); meaningful when pc = "done"
    window,             \* GLFWwindow* window: FALSE is NULL
    contextCurrent,     \* glfwMakeContextCurrent has run
    callbackSet,        \* framebuffer_size_callback is registered
    glLoaded,           \* gladLoadGLLoader succeeded
    surface,            \* framebuffer size of the window, <<w, h>>
    viewport,           \* GL viewport rectangle [x, y, w, h]
    shouldClose,        \* the window's close flag
    vertexShader, fragmentShader, shaderProgram, VBO, VAO,   \* locals of main
    success, infoLog,   \* int success; char infoLog[512]
    shaderObj,          \* GL shader objects: name -> [created, status, log, deleted]
    programObj,         \* GL program object [created, attached, linkStatus, log]
    linkAttempts,       \* number of glLinkProgram calls
    currentProgram,     \* program selected by glUseProgram
    arrayBuffer,        \* GL_ARRAY_BUFFER binding
    vertexArray,        \* vertex array binding
    bufferObj,          \* the buffer object's data store size in bytes
    vaoObj,             \* state stored in the vertex array object
    stdout,             \* lines written to std::cout, [tag, log]
    acquired, released, \* handles in order of acquisition / release
    uploadLog,          \* upload statements executed so far
    iter,               \* statements executed by the current loop iteration
    frames,             \* iterations started
    draws, lastDraw,    \* draw calls issued and the state the last one saw
    rendersSinceClose   \* presents performed after the close flag became true

vars == << pc, exitCode, window, contextCurrent, callbackSet, glLoaded, surface,
           viewport, shouldClose, vertexShader, fragmentShader, shaderProgram,
           VBO, VAO, success, infoLog, shaderObj, programObj, linkAttempts,
           currentProgram, arrayBuffer, vertexArray, bufferObj, vaoObj, stdout,
           acquired, released, uploadLog, iter, frames, draws, lastDraw,
           rendersSinceClose >>

bootVars == << window, contextCurrent, callbackSet, glLoaded, surface >>
shaderVars == << vertexShader, fragmentShader, shaderProgram, success, infoLog,
                 shaderObj, programObj, linkAttempts >>
geomVars == << VBO, VAO, arrayBuffer, vertexArray, bufferObj, vaoObj, uploadLog >>
loopVars == << shouldClose, iter, frames, draws, lastDraw, rendersSinceClose >>

NoShader == [created |-> FALSE, status |-> FALSE, log |-> "", deleted |-> FALSE]
NoAttrib == [buffer |-> 0, size |-> 0, stride |-> 0, enabled |-> FALSE]
NoDraw == [program |-> 0, linked |-> FALSE, vao |-> 0, buffer |-> 0,
           enabled |-> FALSE, first |-> 0, count |-> 0,
           vpw |-> 0, vph |-> 0, sw |-> 0, sh |-> 0]

Init ==
    /\ pc = "glfwInit"
    /\ exitCode = 0
    /\ window = FALSE
    /\ contextCurrent = FALSE
    /\ callbackSet = FALSE
    /\ glLoaded = FALSE
    /\ surface = << 0, 0 >>
    /\ viewport = [x |-> 0, y |-> 0, w |-> 0, h |-> 0]
    /\ shouldClose = FALSE
    /\ vertexShader = 0 /\ fragmentShader = 0 /\ shaderProgram = 0
    /\ VBO = 0 /\ VAO = 0
    /\ success = FALSE
    /\ infoLog = ""
    /\ shaderObj = [n \in ShaderNames |-> NoShader]
    /\ programObj = [created |-> FALSE, attached |-> {}, linkStatus |-> FALSE,
                     log |-> ""]
    /\ linkAttempts = 0
    /\ currentProgram = 0
    /\ arrayBuffer = 0
    /\ vertexArray = 0
    /\ bufferObj = 0
    /\ vaoObj = NoAttrib
    /\ stdout = << >>
    /\ acquired = << >>
    /\ released = << >>
    /\ uploadLog = << >>
    /\ iter = << >>
    /\ frames = 0
    /\ draws = 0
    /\ lastDraw = NoDraw
    /\ rendersSinceClose = 0

\* ===================================================== context bootstrap

\* glfwInit and the three window hints (lines 86-91).
GlfwInit ==
    /\ pc = "glfwInit"
    /\ pc' = "createWindow"
    /\ UNCHANGED << exitCode, bootVars, viewport, shaderVars, currentProgram,
                    geomVars, stdout, acquired, released, loopVars >>

\* glfwCreateWindow(800, 600, ...) and the NULL check (lines 96-102).
CreateWindow ==
    /\ pc = "createWindow"
    /\ \E ok \in BOOLEAN :
         IF ok
         THEN /\ window' = TRUE
              /\ surface' = << InitWidth, InitHeight >>
              /\ acquired' = Append(acquired, "context")
              /\ pc' = "makeCurrent"
              /\ UNCHANGED << stdout, exitCode >>
         ELSE /\ stdout' = Append(stdout, [tag |-> "Failed to create GLFW window",
                                           log |-> ""])
              /\ exitCode' = -1
              /\ pc' = "done"
              /\ UNCHANGED << window, surface, acquired >>
    /\ UNCHANGED << contextCurrent, callbackSet, glLoaded, viewport, shaderVars,
                    currentProgram, geomVars, released, loopVars >>

\* glfwMakeContextCurrent (line 103).  A context made current for the first
\* time has its viewport set to the size of the window it renders into.
MakeContextCurrent ==
    /\ pc = "makeCurrent"
    /\ contextCurrent' = TRUE
    /\ viewport' = [x |-> 0, y |-> 0, w |-> surface[1], h |-> surface[2]]
    /\ pc' = "setCallback"
    /\ UNCHANGED << exitCode, window, callbackSet, glLoaded, surface, shaderVars,
                    currentProgram, geomVars, stdout, acquired, released,
                    loopVars >>

\* glfwSetFramebufferSizeCallback (line 105).
SetFramebufferSizeCallback ==
    /\ pc = "setCallback"
    /\ callbackSet' = TRUE
    /\ pc' = "loadGL"
    /\ UNCHANGED << exitCode, window, contextCurrent, glLoaded, surface, viewport,
                    shaderVars, currentProgram, geomVars, stdout, acquired,
                    released, loopVars >>

\* A loader check that reports the failure but does not return.
LoadGLFallsThrough ==
    /\ pc = "loadGL"
    /\ \E ok \in BOOLEAN :
         IF ok
         THEN /\ glLoaded' = TRUE
              /\ UNCHANGED stdout
         ELSE /\ stdout' = Append(stdout, [tag |-> "Failed to initialize GLAD",
                                           log |-> ""])
              /\ UNCHANGED glLoaded
    /\ pc' = "compileVertex"
    /\ UNCHANGED << exitCode, window, contextCurrent, callbackSet, surface,
                    viewport, shaderVars, currentProgram, geomVars, acquired,
                    released, loopVars >>

\* gladLoadGLLoader and its failure return (lines 108-112).
LoadGL ==
    /\ pc = "loadGL"
    /\ \E ok \in BOOLEAN :
         IF ok
         THEN /\ glLoaded' = TRUE
              /\ pc' = "compileVertex"
              /\ UNCHANGED << stdout, exitCode >>
         ELSE /\ stdout' = Append(stdout, [tag |-> "Failed to initialize GLAD",
                                           log |-> ""])
              /\ exitCode' = -1
              /\ pc' = "done"
              /\ UNCHANGED glLoaded
    /\ UNCHANGED << window, contextCurrent, callbackSet, surface, viewport,
                    shaderVars, currentProgram, geomVars, acquired, released,
                    loopVars >>

\* ======================================================= shader pipeline

\* What glCompileShader can leave in a shader object: a compile status and
\* the info log that goes with it.
CompileOutcomes(name) ==
    { [created |-> TRUE, status |-> TRUE, log |-> l, deleted |-> FALSE] :
          l \in SuccessLogs }
    \cup { [created |-> TRUE, status |-> FALSE, log |-> FailureLog(name),
            deleted |-> FALSE] }

\* glCreateShader / glShaderSource / glCompileShader for the vertex stage
\* (lines 118-121).
CompileVertex ==
    /\ pc = "compileVertex"
    /\ vertexShader' = VertexShaderName
    /\ \E o \in CompileOutcomes(VertexShaderName) :
         shaderObj' = [shaderObj EXCEPT ![VertexShaderName] = o]
    /\ acquired' = Append(acquired, "vertexShader")
    /\ pc' = "checkVertex"
    /\ UNCHANGED << exitCode, bootVars, viewport, fragmentShader, shaderProgram,
                    success, infoLog, programObj, linkAttempts, currentProgram,
                    geomVars, stdout, released, loopVars >>

\* glGetShaderiv(vertexShader, GL_COMPILE_STATUS, &success) and the report
\* block (lines 124-132).
CheckVertex ==
    /\ pc = "checkVertex"
    /\ success' = shaderObj[vertexShader].status
    /\ IF ~success'
       THEN /\ infoLog' = shaderObj[vertexShader].log
            /\ stdout' = Append(stdout,
                   [tag |-> "ERROR::SHADER::VERTEX::COMPILATION_FAILED",
                    log |-> infoLog'])
       ELSE UNCHANGED << infoLog, stdout >>
    /\ pc' = "compileFragment"
    /\ UNCHANGED << exitCode, bootVars, viewport, vertexShader, fragmentShader,
                    shaderProgram, shaderObj, programObj, linkAttempts,
                    currentProgram, geomVars, acquired, released, loopVars >>

\* glCreateShader / glShaderSource / glCompileShader for the fragment stage
\* (lines 135-138).
CompileFragment ==
    /\ pc = "compileFragment"
    /\ fragmentShader' = FragmentShaderName
    /\ \E o \in CompileOutcomes(FragmentShaderName) :
         shaderObj' = [shaderObj EXCEPT ![FragmentShaderName] = o]
    /\ acquired' = Append(acquired, "fragmentShader")
    /\ pc' = "checkFragment"
    /\ UNCHANGED << exitCode, bootVars, viewport, vertexShader, shaderProgram,
                    success, infoLog, programObj, linkAttempts, currentProgram,
                    geomVars, stdout, released, loopVars >>

\* glGetShaderiv(fragmentShader, ...) and the report block (lines 141-147).
\* The log is fetched with glGetShaderInfoLog(vertexShader, ...): line 145
\* names the vertex shader object.
CheckFragment ==
    /\ pc = "checkFragment"
    /\ success' = shaderObj[fragmentShader].status
    /\ IF ~success'
       THEN /\ infoLog' = shaderObj[vertexShader].log
            /\ stdout' = Append(stdout,
                   [tag |-> "ERROR::SHADER::FRAGMENT::COMPILATION_FAILED",
                    log |-> infoLog'])
       ELSE UNCHANGED << infoLog, stdout >>
    /\ pc' = "createProgram"
    /\ UNCHANGED << exitCode, bootVars, viewport, vertexShader, fragmentShader,
                    shaderProgram, shaderObj, programObj, linkAttempts,
                    currentProgram, geomVars, acquired, released, loopVars >>

\* glCreateProgram and the two glAttachShader calls (lines 150-153).
CreateProgram ==
    /\ pc = "createProgram"
    /\ shaderProgram' = ProgramName
    /\ programObj' = [programObj EXCEPT !.created = TRUE,
                          !.attached = {vertexShader, fragmentShader}]
    /\ acquired' = Append(acquired, "program")
    /\ pc' = "linkProgram"
    /\ UNCHANGED << exitCode, bootVars, viewport, vertexShader, fragmentShader,
                    success, infoLog, shaderObj, linkAttempts, currentProgram,
                    geomVars, stdout, released, loopVars >>

\* What a link of the attached shaders can produce: it fails when an attached
\* shader is not successfully compiled, and may succeed or fail otherwise.
LinkOutcomes ==
    IF \A n \in programObj.attached : shaderObj[n].status
    THEN { [status |-> TRUE, log |-> ""], [status |-> FALSE, log |-> LinkFailureLog] }
    ELSE { [status |-> FALSE, log |-> LinkFailureLog] }

\* A link step that is skipped unless both stages compiled.
LinkProgramGuarded ==
    /\ pc = "linkProgram"
    /\ IF \A n \in programObj.attached : shaderObj[n].status
       THEN /\ \E o \in LinkOutcomes :
                 programObj' = [programObj EXCEPT !.linkStatus = o.status,
                                                  !.log = o.log]
            /\ linkAttempts' = linkAttempts + 1
       ELSE UNCHANGED << programObj, linkAttempts >>
    /\ pc' = "useProgram"
    /\ UNCHANGED << exitCode, bootVars, viewport, vertexShader, fragmentShader,
                    shaderProgram, success, infoLog, shaderObj, currentProgram,
                    geomVars, stdout, acquired, released, loopVars >>

\* glLinkProgram(shaderProgram) (line 154): no condition guards it.
LinkProgram ==
    /\ pc = "linkProgram"
    /\ \E o \in LinkOutcomes :
         programObj' = [programObj EXCEPT !.linkStatus = o.status, !.log = o.log]
    /\ linkAttempts' = linkAttempts + 1
    /\ pc' = "useProgram"
    /\ UNCHANGED << exitCode, bootVars, viewport, vertexShader, fragmentShader,
                    shaderProgram, success, infoLog, shaderObj, currentProgram,
                    geomVars, stdout, acquired, released, loopVars >>

\* glUseProgram(shaderProgram) right after the link (line 155).
UseProgramSetup ==
    /\ pc = "useProgram"
    /\ currentProgram' = shaderProgram
    /\ pc' = "deleteShaders"
    /\ UNCHANGED << exitCode, bootVars, viewport, shaderVars, geomVars, stdout,
                    acquired, released, loopVars >>

\* glDeleteShader for both stage objects (lines 159-160).
DeleteShaders ==
    /\ pc = "deleteShaders"
    /\ shaderObj' = [n \in ShaderNames |-> [shaderObj[n] EXCEPT !.deleted = TRUE]]
    /\ released' = released \o << "vertexShader", "fragmentShader" >>
    /\ pc' = "checkLink"
    /\ UNCHANGED << exitCode, bootVars, viewport, vertexShader, fragmentShader,
                    shaderProgram, success, infoLog, programObj, linkAttempts,
                    currentProgram, geomVars, stdout, acquired, loopVars >>

\* A link check that returns -1 on failure instead of carrying on.
CheckLinkFatal ==
    /\ pc = "checkLink"
    /\ success' = programObj.linkStatus
    /\ IF ~success'
       THEN /\ infoLog' = programObj.log
            /\ stdout' = Append(stdout,
                   [tag |-> "ERROR::SHADER::PROGRAM:: Linking failed",
                    log |-> infoLog'])
            /\ exitCode' = -1
            /\ pc' = "done"
       ELSE /\ pc' = "genBuffers"
            /\ UNCHANGED << infoLog, stdout, exitCode >>
    /\ UNCHANGED << bootVars, viewport, vertexShader, fragmentShader,
                    shaderProgram, shaderObj, programObj, linkAttempts,
                    currentProgram, geomVars, acquired, released, loopVars >>

\* A link check that reads the status but prints nothing.
CheckLinkSilent ==
    /\ pc = "checkLink"
    /\ success' = programObj.linkStatus
    /\ pc' = "genBuffers"
    /\ UNCHANGED << exitCode, bootVars, viewport, vertexShader, fragmentShader,
                    shaderProgram, infoLog, shaderObj, programObj, linkAttempts,
                    currentProgram, geomVars, stdout, acquired, released, loopVars >>

\* glGetProgramiv(shaderProgram, GL_LINK_STATUS, &success) and the report
\* block (lines 163-167).  Nothing returns: main goes on to the geometry.
CheckLink ==
    /\ pc = "checkLink"
    /\ success' = programObj.linkStatus
    /\ IF ~success'
       THEN /\ infoLog' = programObj.log
            /\ stdout' = Append(stdout,
                   [tag |-> "ERROR::SHADER::PROGRAM:: Linking failed",
                    log |-> infoLog'])
       ELSE UNCHANGED << infoLog, stdout >>
    /\ pc' = "genBuffers"
    /\ UNCHANGED << exitCode, bootVars, viewport, vertexShader, fragmentShader,
                    shaderProgram, shaderObj, programObj, linkAttempts,
                    currentProgram, geomVars, acquired, released, loopVars >>

\* ======================================================== geometry upload

\* glGenBuffers(1, &VBO) (lines 182-183).
GenBuffers ==
    /\ pc = "genBuffers"
    /\ VBO' = BufferName
    /\ acquired' = Append(acquired, "VBO")
    /\ pc' = "genVertexArrays"
    /\ UNCHANGED << exitCode, bootVars, viewport, shaderVars, currentProgram, VAO,
                    arrayBuffer, vertexArray, bufferObj, vaoObj, uploadLog, stdout,
                    released, loopVars >>

\* glGenVertexArrays(1, &VAO) (lines 226-227).
GenVertexArrays ==
    /\ pc = "genVertexArrays"
    /\ VAO' = VertexArrayName
    /\ acquired' = Append(acquired, "VAO")
    /\ pc' = "bindVertexArray"
    /\ UNCHANGED << exitCode, bootVars, viewport, shaderVars, currentProgram, VBO,
                    arrayBuffer, vertexArray, bufferObj, vaoObj, uploadLog, stdout,
                    released, loopVars >>

\* glBindVertexArray(VAO) (line 228).
BindVertexArrayUpload ==
    /\ pc = "bindVertexArray"
    /\ vertexArray' = VAO
    /\ uploadLog' = Append(uploadLog, "bindVertexArray")
    /\ pc' = "bindBuffer"
    /\ UNCHANGED << exitCode, bootVars, viewport, shaderVars, currentProgram, VBO,
                    VAO, arrayBuffer, bufferObj, vaoObj, stdout, acquired,
                    released, loopVars >>

\* A buffer bind that passes name 0, leaving no buffer bound for the upload.
BindBufferUploadZero ==
    /\ pc = "bindBuffer"
    /\ arrayBuffer' = 0
    /\ uploadLog' = Append(uploadLog, "bindBuffer")
    /\ pc' = "bufferData"
    /\ UNCHANGED << exitCode, bootVars, viewport, shaderVars, currentProgram, VBO,
                    VAO, vertexArray, bufferObj, vaoObj, stdout, acquired,
                    released, loopVars >>

\* glBindBuffer(GL_ARRAY_BUFFER, VBO) (line 229).
BindBufferUpload ==
    /\ pc = "bindBuffer"
    /\ arrayBuffer' = VBO
    /\ uploadLog' = Append(uploadLog, "bindBuffer")
    /\ pc' = "bufferData"
    /\ UNCHANGED << exitCode, bootVars, viewport, shaderVars, currentProgram, VBO,
                    VAO, vertexArray, bufferObj, vaoObj, stdout, acquired,
                    released, loopVars >>

\* glBufferData(GL_ARRAY_BUFFER, sizeof(vertices), vertices, GL_STATIC_DRAW)
\* (line 230): fills the data store of the buffer bound to GL_ARRAY_BUFFER.
BufferData ==
    /\ pc = "bufferData"
    /\ bufferObj' = IF arrayBuffer # 0 THEN VertexBytes ELSE bufferObj
    /\ uploadLog' = Append(uploadLog, "bufferData")
    /\ pc' = "vertexAttribPointer"
    /\ UNCHANGED << exitCode, bootVars, viewport, shaderVars, currentProgram, VBO,
                    VAO, arrayBuffer, vertexArray, vaoObj, stdout, acquired,
                    released, loopVars >>

\* glVertexAttribPointer(0, 3, GL_FLOAT, GL_FALSE, 3 * sizeof(float), 0)
\* (line 231): the bound vertex array object records, for slot 0, the layout
\* and the buffer bound to GL_ARRAY_BUFFER at this moment.
VertexAttribPointer ==
    /\ pc = "vertexAttribPointer"
    /\ vaoObj' = IF vertexArray # 0
                 THEN [vaoObj EXCEPT !.buffer = arrayBuffer, !.size = AttribSize,
                                     !.stride = AttribStride]
                 ELSE vaoObj
    /\ uploadLog' = Append(uploadLog, "vertexAttribPointer")
    /\ pc' = "enableAttrib"
    /\ UNCHANGED << exitCode, bootVars, viewport, shaderVars, currentProgram, VBO,
                    VAO, arrayBuffer, vertexArray, bufferObj, stdout, acquired,
                    released, loopVars >>

\* glEnableVertexAttribArray(0) (line 232): stored in the bound vertex array.
EnableVertexAttribArray ==
    /\ pc = "enableAttrib"
    /\ vaoObj' = IF vertexArray # 0 THEN [vaoObj EXCEPT !.enabled = TRUE]
                                    ELSE vaoObj
    /\ uploadLog' = Append(uploadLog, "enableVertexAttribArray")
    /\ pc' = "unbindBuffer"
    /\ UNCHANGED << exitCode, bootVars, viewport, shaderVars, currentProgram, VBO,
                    VAO, arrayBuffer, vertexArray, bufferObj, stdout, acquired,
                    released, loopVars >>

\* glBindBuffer(GL_ARRAY_BUFFER, 0) (line 235).
UnbindBuffer ==
    /\ pc = "unbindBuffer"
    /\ arrayBuffer' = 0
    /\ uploadLog' = Append(uploadLog, "unbindBuffer")
    /\ pc' = "unbindVertexArray"
    /\ UNCHANGED << exitCode, bootVars, viewport, shaderVars, currentProgram, VBO,
                    VAO, vertexArray, bufferObj, vaoObj, stdout, acquired,
                    released, loopVars >>

\* glBindVertexArray(0) (line 238).
UnbindVertexArray ==
    /\ pc = "unbindVertexArray"
    /\ vertexArray' = 0
    /\ uploadLog' = Append(uploadLog, "unbindVertexArray")
    /\ pc' = "loopCheck"
    /\ UNCHANGED << exitCode, bootVars, viewport, shaderVars, currentProgram, VBO,
                    VAO, arrayBuffer, bufferObj, vaoObj, stdout, acquired,
                    released, loopVars >>

\* ============================================================ render loop

\* A loop condition that never looks at the close flag.
LoopCheckIgnoresClose ==
    /\ pc = "loopCheck"
    /\ frames < MaxFrames
    /\ frames' = frames + 1
    /\ iter' = << >>
    /\ pc' = "processInput"
    /\ UNCHANGED << exitCode, bootVars, viewport, shaderVars, currentProgram,
                    geomVars, stdout, acquired, released, shouldClose, draws,
                    lastDraw, rendersSinceClose >>

\* while (!glfwWindowShouldClose(window)) (line 245).
LoopCheck ==
    /\ pc = "loopCheck"
    /\ IF shouldClose
       THEN /\ pc' = "terminate"
            /\ UNCHANGED << frames, iter >>
       ELSE /\ frames < MaxFrames
            /\ frames' = frames + 1
            /\ iter' = << >>
            /\ pc' = "processInput"
    /\ UNCHANGED << exitCode, bootVars, viewport, shaderVars, currentProgram,
                    geomVars, stdout, acquired, released, shouldClose, draws,
                    lastDraw, rendersSinceClose >>

\* processInput (lines 290-297): the value of the close flag after the call,
\* given the state glfwGetKey reports for the escape key.
processInput(key, flag) == IF key = "PRESS" THEN TRUE ELSE flag

\* processInput(window) (line 248).
ProcessInput ==
    /\ pc = "processInput"
    /\ \E key \in {"PRESS", "RELEASE"} :
         shouldClose' = processInput(key, shouldClose)
    /\ iter' = Append(iter, "processInput")
    /\ pc' = "clear"
    /\ UNCHANGED << exitCode, bootVars, viewport, shaderVars, currentProgram,
                    geomVars, stdout, acquired, released, frames, draws, lastDraw,
                    rendersSinceClose >>

\* glClearColor / glClear(GL_COLOR_BUFFER_BIT) (lines 253-254).
Clear ==
    /\ pc = "clear"
    /\ iter' = Append(iter, "clear")
    /\ pc' = "useProgramFrame"
    /\ UNCHANGED << exitCode, bootVars, viewport, shaderVars, currentProgram,
                    geomVars, stdout, acquired, released, shouldClose, frames,
                    draws, lastDraw, rendersSinceClose >>

\* glUseProgram(shaderProgram) (line 259): whatever the link status was.
UseProgramFrame ==
    /\ pc = "useProgramFrame"
    /\ currentProgram' = shaderProgram
    /\ iter' = Append(iter, "useProgram")
    /\ pc' = "bindVertexArrayFrame"
    /\ UNCHANGED << exitCode, bootVars, viewport, shaderVars, geomVars, stdout,
                    acquired, released, shouldClose, frames, draws, lastDraw,
                    rendersSinceClose >>

\* glBindVertexArray(VAO) (line 260).
BindVertexArrayFrame ==
    /\ pc = "bindVertexArrayFrame"
    /\ vertexArray' = VAO
    /\ iter' = Append(iter, "bindVertexArray")
    /\ pc' = "drawArrays"
    /\ UNCHANGED << exitCode, bootVars, viewport, shaderVars, currentProgram, VBO,
                    VAO, arrayBuffer, bufferObj, vaoObj, uploadLog, stdout,
                    acquired, released, shouldClose, frames, draws, lastDraw,
                    rendersSinceClose >>

\* An iteration that presents without having drawn.
DrawArraysSkipped ==
    /\ pc = "drawArrays"
    /\ pc' = "swapBuffers"
    /\ UNCHANGED << exitCode, bootVars, viewport, shaderVars, currentProgram,
                    geomVars, stdout, acquired, released, loopVars >>

\* glDrawArrays(GL_TRIANGLES, 0, 3) (line 261).  lastDraw is the state the
\* draw call ran against.
DrawArrays ==
    /\ pc = "drawArrays"
    /\ draws' = draws + 1
    /\ lastDraw' = [program |-> currentProgram,
                    linked |-> programObj.linkStatus,
                    vao |-> vertexArray,
                    buffer |-> IF vertexArray # 0 THEN vaoObj.buffer ELSE 0,
                    enabled |-> IF vertexArray # 0 THEN vaoObj.enabled ELSE FALSE,
                    first |-> DrawFirst, count |-> DrawCount,
                    vpw |-> viewport.w, vph |-> viewport.h,
                    sw |-> surface[1], sh |-> surface[2]]
    /\ iter' = Append(iter, "drawArrays")
    /\ pc' = "swapBuffers"
    /\ UNCHANGED << exitCode, bootVars, viewport, shaderVars, currentProgram,
                    geomVars, stdout, acquired, released, shouldClose, frames,
                    rendersSinceClose >>

\* glfwSwapBuffers(window) (line 265): the frame is presented.
SwapBuffers ==
    /\ pc = "swapBuffers"
    /\ rendersSinceClose' = IF shouldClose THEN rendersSinceClose + 1
                                           ELSE rendersSinceClose
    /\ iter' = Append(iter, "swapBuffers")
    /\ pc' = "pollEvents"
    /\ UNCHANGED << exitCode, bootVars, viewport, shaderVars, currentProgram,
                    geomVars, stdout, acquired, released, shouldClose, frames,
                    draws, lastDraw >>

\* A resize observer that keeps the size the window was created with.
framebuffer_size_callback_fixed(width, height) ==
    [x |-> 0, y |-> 0, w |-> InitWidth, h |-> InitHeight]

\* framebuffer_size_callback (lines 278-287): glViewport(0, 0, width, height).
framebuffer_size_callback(width, height) ==
    [x |-> 0, y |-> 0, w |-> width, h |-> height]

\* glfwPollEvents() (line 269): dispatches what the window system has
\* queued: possibly a framebuffer resize, which calls the registered
\* observer with the new size, and possibly a close request.
PollEvents ==
    /\ pc = "pollEvents"
    /\ \E resize \in {<< >>} \cup (Dims \X Dims) :
         IF resize # << >>
         THEN /\ surface' = resize
              /\ viewport' = IF callbackSet
                             THEN framebuffer_size_callback(resize[1], resize[2])
                             ELSE viewport
         ELSE UNCHANGED << surface, viewport >>
    /\ \E closeRequest \in BOOLEAN :
         shouldClose' = (shouldClose \/ closeRequest)
    /\ iter' = Append(iter, "pollEvents")
    /\ pc' = "loopCheck"
    /\ UNCHANGED << exitCode, window, contextCurrent, callbackSet, glLoaded,
                    shaderVars, currentProgram, geomVars, stdout, acquired,
                    released, frames, draws, lastDraw, rendersSinceClose >>

\* A shutdown that returns without calling glfwTerminate.
TerminateWithoutRelease ==
    /\ pc = "terminate"
    /\ exitCode' = 0
    /\ pc' = "done"
    /\ UNCHANGED << bootVars, viewport, shaderVars, currentProgram, geomVars,
                    stdout, acquired, released, loopVars >>

\* glfwTerminate(); return 0; (lines 273-274).  glfwTerminate destroys the
\* window and its context; no glDelete* call precedes it.
Terminate ==
    /\ pc = "terminate"
    /\ released' = Append(released, "context")
    /\ exitCode' = 0
    /\ pc' = "done"
    /\ UNCHANGED << bootVars, viewport, shaderVars, currentProgram, geomVars,
                    stdout, acquired, loopVars >>

Next ==
    \/ GlfwInit \/ CreateWindow \/ MakeContextCurrent
    \/ SetFramebufferSizeCallback \/ LoadGL
    \/ CompileVertex \/ CheckVertex \/ CompileFragment \/ CheckFragment
    \/ CreateProgram \/ LinkProgram \/ UseProgramSetup \/ DeleteShaders
    \/ CheckLink
    \/ GenBuffers \/ GenVertexArrays \/ BindVertexArrayUpload
    \/ BindBufferUpload \/ BufferData \/ VertexAttribPointer
    \/ EnableVertexAttribArray \/ UnbindBuffer \/ UnbindVertexArray
    \/ LoopCheck \/ ProcessInput \/ Clear \/ UseProgramFrame
    \/ BindVertexArrayFrame \/ DrawArrays \/ SwapBuffers \/ PollEvents
    \/ Terminate

Spec == Init /\ [][Next]_vars

\* ============================================================= properties

IsPrefix(a, b) == Len(a) <= Len(b) /\ a = SubSeq(b, 1, Len(a))
Range(q) == { q[i] : i \in 1..Len(q) }
RECURSIVE Reverse(_)
Reverse(q) == IF q = << >> THEN << >> ELSE Append(Reverse(Tail(q)), Head(q))
Printed(t) == \E i \in 1..Len(stdout) : stdout[i].tag = t

VertexFailedTag == "ERROR::SHADER::VERTEX::COMPILATION_FAILED"
FragmentFailedTag == "ERROR::SHADER::FRAGMENT::COMPILATION_FAILED"
LinkFailedTag == "ERROR::SHADER::PROGRAM:: Linking failed"

\* Both stages have been compiled and at least one compile status is failure.
CompileFailed ==
    /\ \A n \in ShaderNames : shaderObj[n].created
    /\ \E n \in ShaderNames : ~shaderObj[n].status

\* The persistent handles main owns, as opposed to the transient stage objects.
IsOwned(h) == h \in {"context", "program", "VBO", "VAO"}

UploadOrder == << "bindVertexArray", "bindBuffer", "bufferData",
                  "vertexAttribPointer", "enableVertexAttribArray",
                  "unbindBuffer", "unbindVertexArray" >>

FrameOrder == << "processInput", "clear", "useProgram", "bindVertexArray",
                 "drawArrays", "swapBuffers", "pollEvents" >>

\* ---- C1 ----------------------------------------------------------------
\* C1 as stated: when at least one of the two compile statuses is failure,
\* no link of the program is performed.
C1_LinkOnlyAfterBothCompiled == CompileFailed => linkAttempts = 0

\* C1 amended: the link is attempted exactly once in every execution that
\* reaches shader setup, whatever the compile statuses; with a failed stage
\* the link is still performed, its status is failure, and the link check
\* that follows prints the failure.
C1_LinkAlwaysAttempted ==
    /\ (programObj.created /\ pc # "linkProgram") => linkAttempts = 1
    /\ (~programObj.created \/ pc = "linkProgram") => linkAttempts = 0
    /\ (CompileFailed /\ linkAttempts = 1) => ~programObj.linkStatus
    /\ (CompileFailed /\ VBO # 0) => Printed(LinkFailedTag)

C1_Witness ==
    /\ pc = "done" /\ exitCode = 0
    /\ ~shaderObj[FragmentShaderName].status
    /\ linkAttempts = 1

\* ---- C2 ----------------------------------------------------------------
\* C2: every reported stage compilation failure carries a non-empty log,
\* namely the log of the stage that failed.
C2_FailureCarriesOwnLog ==
    \A i \in 1..Len(stdout) :
        /\ stdout[i].tag = VertexFailedTag =>
               /\ stdout[i].log # ""
               /\ stdout[i].log = shaderObj[VertexShaderName].log
        /\ stdout[i].tag = FragmentFailedTag =>
               /\ stdout[i].log # ""
               /\ stdout[i].log = shaderObj[FragmentShaderName].log

\* ---- C3 ----------------------------------------------------------------
\* C3: once the close flag is true the loop presents at most one more frame
\* before it leaves the loop, and the loop is left only with the flag true.
C3_AtMostOneRenderAfterClose ==
    /\ rendersSinceClose <= 1
    /\ pc = "terminate" => shouldClose
    /\ (pc = "done" /\ exitCode = 0) => shouldClose
    /\ (pc = "loopCheck" /\ ~shouldClose) => rendersSinceClose = 0

C3_Witness ==
    /\ pc = "done" /\ exitCode = 0
    /\ rendersSinceClose = 1
    /\ frames >= 2

\* ---- C4 ----------------------------------------------------------------
\* C4 as stated: a draw call only ever runs against a successfully linked
\* program.
C4_NoDrawWithUnlinkedProgram == draws > 0 => lastDraw.linked

\* C4 amended: every draw call runs against the one program object created
\* in setup, linked or not; when its link status is failure the link failure
\* was printed before the first draw.
C4_DrawUsesSetupProgram ==
    draws > 0 =>
        /\ lastDraw.program = ProgramName
        /\ lastDraw.program = shaderProgram
        /\ lastDraw.linked = programObj.linkStatus
        /\ ~lastDraw.linked => Printed(LinkFailedTag)

C4_Witness == draws > 0 /\ ~lastDraw.linked /\ lastDraw.program = ProgramName

\* ---- C5 ----------------------------------------------------------------
\* C5: after a window creation failure or a loader failure no shader is
\* compiled, nothing is uploaded, the loop is never entered and main has
\* returned -1; every later setup step runs only with a window and a loaded
\* function table.
C5_BootFailureIsFatal ==
    /\ (Printed("Failed to create GLFW window") \/ Printed("Failed to initialize GLAD"))
         => /\ pc = "done" /\ exitCode = -1
            /\ \A n \in ShaderNames : ~shaderObj[n].created
            /\ ~programObj.created /\ linkAttempts = 0
            /\ uploadLog = << >> /\ bufferObj = 0 /\ VBO = 0 /\ VAO = 0
            /\ frames = 0 /\ draws = 0 /\ iter = << >>
    /\ ((\E n \in ShaderNames : shaderObj[n].created) \/ frames > 0)
         => (window /\ glLoaded)
    /\ exitCode = -1 => (~window \/ ~glLoaded)

C5_Witness ==
    /\ pc = "done" /\ exitCode = -1
    /\ window /\ ~glLoaded
    /\ Printed("Failed to initialize GLAD")

\* ---- C6 ----------------------------------------------------------------
\* C6 as stated: when main returns 0 every owned handle has been released,
\* in the reverse of the order of acquisition.
C6_ReleasedInReverseOrder ==
    (pc = "done" /\ exitCode = 0) =>
        SelectSeq(released, IsOwned) = Reverse(SelectSeq(acquired, IsOwned))

\* C6 amended: when main returns 0 the only owned handle released by a call
\* of the program is the window/context (glfwTerminate); the program object,
\* the vertex buffer and the vertex array object were acquired in that order
\* after the context and are never released by a call of their own.
C6_OnlyContextReleased ==
    (pc = "done" /\ exitCode = 0) =>
        /\ SelectSeq(acquired, IsOwned) = << "context", "program", "VBO", "VAO" >>
        /\ SelectSeq(released, IsOwned) = << "context" >>
        /\ released = << "vertexShader", "fragmentShader", "context" >>

C6_Witness == pc = "done" /\ exitCode = 0 /\ "context" \in Range(released)

\* ---- C7 ----------------------------------------------------------------
\* C7: after a printed compile or link failure main never returns -1, the
\* geometry is uploaded in full before the loop, every iteration of the loop
\* issues its draw call, and main returns 0 after at least one iteration.
C7_ShaderFailureNotFatal ==
    (Printed(VertexFailedTag) \/ Printed(FragmentFailedTag) \/ Printed(LinkFailedTag))
      => /\ exitCode # -1
         /\ pc = "done" => (exitCode = 0 /\ frames >= 1)
         /\ (frames > 0 \/ pc \in {"loopCheck", "terminate", "done"})
               => (uploadLog = UploadOrder /\ bufferObj = VertexBytes)
         /\ pc \in {"loopCheck", "terminate", "done", "swapBuffers", "pollEvents"}
               => draws = frames

C7_Witness ==
    /\ pc = "done" /\ exitCode = 0
    /\ Printed(FragmentFailedTag) /\ Printed(LinkFailedTag)
    /\ draws >= 2

\* ---- C8 ----------------------------------------------------------------
\* C8: the upload statements run in the order of UploadOrder; the layout is
\* declared with the vertex array object and the data buffer of the upload
\* both bound; from then on, and after both are unbound, the vertex array
\* object holds that buffer for slot 0, which is enabled once the upload is
\* complete.
C8_UploadOrder ==
    /\ IsPrefix(uploadLog, UploadOrder)
    /\ pc = "vertexAttribPointer" =>
          /\ VAO # 0 /\ vertexArray = VAO
          /\ VBO # 0 /\ arrayBuffer = VBO
          /\ bufferObj = VertexBytes
    /\ "vertexAttribPointer" \in Range(uploadLog) =>
          /\ vaoObj.buffer = VBO /\ vaoObj.buffer = BufferName
          /\ vaoObj.size = AttribSize /\ vaoObj.stride = AttribStride
    /\ uploadLog = UploadOrder =>
          /\ arrayBuffer = 0
          /\ vaoObj.buffer = BufferName /\ vaoObj.enabled

C8_Witness ==
    /\ pc = "loopCheck" /\ frames = 0
    /\ uploadLog = UploadOrder
    /\ arrayBuffer = 0 /\ vertexArray = 0
    /\ vaoObj.buffer = BufferName

\* ---- C9 ----------------------------------------------------------------
\* C9: the statements of an iteration run in the order of FrameOrder, once
\* each, and a finished iteration has run all of them; every draw call is a
\* draw of 3 vertices from 0 with the program and the vertex array object of
\* the upload bound; a frame is presented only after its draw.
C9_FrameOrder ==
    /\ IsPrefix(iter, FrameOrder)
    /\ (frames > 0 /\ pc \in {"loopCheck", "terminate", "done"}) => iter = FrameOrder
    /\ draws > 0 =>
          /\ lastDraw.vao = VertexArrayName /\ lastDraw.vao = VAO
          /\ lastDraw.buffer = BufferName /\ lastDraw.enabled
          /\ lastDraw.program = shaderProgram
          /\ lastDraw.first = DrawFirst /\ lastDraw.count = DrawCount
    /\ "drawArrays" \in Range(iter) => draws = frames
    /\ "swapBuffers" \in Range(iter) => draws = frames
    /\ "drawArrays" \notin Range(iter) => draws = frames - (IF frames > 0 THEN 1 ELSE 0)

C9_Witness ==
    /\ pc = "loopCheck" /\ frames = 2 /\ draws = 2
    /\ iter = FrameOrder

\* ---- C10 ---------------------------------------------------------------
\* C10: once the context is current the viewport is (0, 0, w, h) for the
\* current surface size (w, h), in particular after a resize notification; it
\* changes only when the resize observer runs during event polling (after the
\* context's initial state); every draw call saw a viewport equal to the
\* surface size.
C10_ViewportMirrorsSurface ==
    /\ [](contextCurrent =>
            viewport = [x |-> 0, y |-> 0, w |-> surface[1], h |-> surface[2]])
    /\ [](draws > 0 => (lastDraw.vpw = lastDraw.sw /\ lastDraw.vph = lastDraw.sh))
    /\ [][viewport' # viewport =>
            \/ (pc = "makeCurrent" /\ ~contextCurrent)
            \/ (pc = "pollEvents" /\ callbackSet /\ surface' # surface)]_vars

C10_Witness ==
    /\ draws >= 2
    /\ lastDraw.sw = 1 /\ lastDraw.sh = 2
    /\ lastDraw.vpw = 1 /\ lastDraw.vph = 2

====
